---- MODULE Spec2Model ----
(***************************************************************************)
(* The FraudGuard ledger contract (src/unnamed/part_001, lines 167-417):   *)
(* an owner / relayer access-control state, a mapping from transaction     *)
(* hash to transaction record, and the events the contract emits.          *)
(*                                                                         *)
(* Every external function of the contract is an operator that maps the    *)
(* ledger before the call (storage and event log), the block timestamp,    *)
(* the caller and the arguments to the outcome of the call: the ledger     *)
(* after it, the revert message ("" when the call ran to its end) and the  *)
(* values a view function returns.  A reverted call returns the ledger it  *)
(* was given.  One action per external function commits the outcome.       *)
(***************************************************************************)
EXTENDS Integers, Sequences, FiniteSets, TLC

\* ------------------------------------------------------------------ bounds
\* the longest event log and the latest block timestamp that are explored
MaxTime == 2
MaxEvents == 3

\* ------------------------------------------------------- value domains
\* address(0) and bytes32(0), the values the contract compares against
ZeroAddress == 0
ZeroHash == 0

\* the accounts that call the contract; msg.sender is never address(0)
Caller == {1, 2}
\* address arguments, address(0) included
Address == {ZeroAddress} \cup Caller
\* bytes32 keys, the zero key included
Bytes32 == {ZeroHash, 1}
\* uint256 amounts, zero included
Amount == {0, 1}
\* the _sender of the submissions that are committed: the contract stores and
\* logs it and no guard reads it, so one account (not the deployer) stands for
\* it; the calls a property quantifies over take every Caller as _sender
Sender == {2}
\* string arguments
Reason == {"manual review", "cleared"}

\* enum TxStatus { Pending, Held, Verified, Rejected, Completed }
TxStatus == {"Pending", "Held", "Verified", "Rejected", "Completed"}

\* the account that deploys the contract (msg.sender of the constructor)
Deployer == 1

\* the value of an unwritten slot of mapping(bytes32 => Transaction):
\* every field zero, the enum at its first member, the string empty
EmptyTransaction ==
    [txHash |-> ZeroHash, sender |-> ZeroAddress, amount |-> 0,
     timestamp |-> 0, status |-> "Pending", reason |-> ""]

VARIABLES
    owner,              \* address public owner
    relayer,            \* address public relayer (the primary relayer)
    authorizedRelayers, \* mapping(address => bool)
    transactions,       \* mapping(bytes32 => Transaction)
    events,             \* the events emitted so far, in order
    now                 \* block.timestamp of the current block

vars == <<owner, relayer, authorizedRelayers, transactions, events, now>>

\* the contract's storage and its event log, as one value
Ledger ==
    [owner |-> owner, relayer |-> relayer,
     authorizedRelayers |-> authorizedRelayers,
     transactions |-> transactions, events |-> events]

\* ------------------------------------------------------------ outcomes
\* (mutant) a failed call leaves a trace of itself in the event log
Revert_LeavesEvent(L, msg) ==
    [ledger |-> [L EXCEPT !.events =
                    Append(@, [type |-> "TxFailed", txHash |-> ZeroHash])],
     err |-> msg, str |-> "", flag |-> FALSE]

\* require(...) failed: the call reverts, nothing is written or emitted
Revert(L, msg) == [ledger |-> L, err |-> msg, str |-> "", flag |-> FALSE]

\* the call ran to its end and left the ledger L
Done(L) == [ledger |-> L, err |-> "", str |-> "", flag |-> FALSE]

\* a view function returned (flag, str)
Returned(L, flag, str) == [ledger |-> L, err |-> "", str |-> str, flag |-> flag]

\* -------------------------------------------------------------- modifiers
\* (mutant) the owner check also lets relayers through
onlyOwner_OrRelayer(L, c) ==
    c = L.owner \/ c = L.relayer \/ L.authorizedRelayers[c]

onlyOwner(L, c) == c = L.owner

onlyRelayer(L, c) == c = L.relayer \/ L.authorizedRelayers[c]

\* ------------------------------------------------------------ constructor
\* (mutant) the constructor sets the owner and leaves the relayer unset
Init_RelayerUnset ==
    /\ owner = Deployer
    /\ relayer = ZeroAddress
    /\ authorizedRelayers = [a \in Address |-> FALSE]
    /\ transactions = [h \in Bytes32 |-> EmptyTransaction]
    /\ events = <<>>
    /\ now = 1

Init ==
    /\ owner = Deployer
    /\ relayer = Deployer
    /\ authorizedRelayers = [a \in Address |-> a = Deployer]
    /\ transactions = [h \in Bytes32 |-> EmptyTransaction]
    /\ events = <<>>
    /\ now = 1

\* ---------------------------------------------------------------- registry
\* (mutant) the amount is checked before the duplicate
submitTxHash_AmountFirst(L, t, c, h, s, a) ==
    IF ~(a > 0)
    THEN Revert(L, "Amount must be greater than 0")
    ELSE IF ~(L.transactions[h].txHash = ZeroHash)
    THEN Revert(L, "Transaction already exists")
    ELSE Done([L EXCEPT
            !.transactions[h] =
                [txHash |-> h, sender |-> s, amount |-> a,
                 timestamp |-> t, status |-> "Pending", reason |-> ""],
            !.events = Append(@,
                [type |-> "TxSubmitted", txHash |-> h, sender |-> s,
                 amount |-> a, timestamp |-> t])])

submitTxHash(L, t, c, h, s, a) ==
    IF ~(L.transactions[h].txHash = ZeroHash)
    THEN Revert(L, "Transaction already exists")
    ELSE IF ~(a > 0)
    THEN Revert(L, "Amount must be greater than 0")
    ELSE Done([L EXCEPT
            !.transactions[h] =
                [txHash |-> h, sender |-> s, amount |-> a,
                 timestamp |-> t, status |-> "Pending", reason |-> ""],
            !.events = Append(@,
                [type |-> "TxSubmitted", txHash |-> h, sender |-> s,
                 amount |-> a, timestamp |-> t])])

\* (mutant) the onlyRelayer modifier is missing
setVerification_NoModifier(L, t, c, h, v, r) ==
    IF ~(L.transactions[h].txHash # ZeroHash)
    THEN Revert(L, "Transaction does not exist")
    ELSE Done([L EXCEPT
            !.transactions[h].status = IF v THEN "Verified" ELSE "Rejected",
            !.transactions[h].reason = r,
            !.events = Append(@,
                [type |-> "TxVerified", txHash |-> h, verified |-> v,
                 reason |-> r, timestamp |-> t])])

\* (mutant) verification is accepted from Pending and Held only
setVerification_PendingOrHeldOnly(L, t, c, h, v, r) ==
    IF ~onlyRelayer(L, c)
    THEN Revert(L, "Only relayer can call this function")
    ELSE IF ~(L.transactions[h].txHash # ZeroHash)
    THEN Revert(L, "Transaction does not exist")
    ELSE IF ~(L.transactions[h].status \in {"Pending", "Held"})
    THEN Revert(L, "Transaction is not in pending state")
    ELSE Done([L EXCEPT
            !.transactions[h].status = IF v THEN "Verified" ELSE "Rejected",
            !.transactions[h].reason = r,
            !.events = Append(@,
                [type |-> "TxVerified", txHash |-> h, verified |-> v,
                 reason |-> r, timestamp |-> t])])

setVerification(L, t, c, h, v, r) ==
    IF ~onlyRelayer(L, c)
    THEN Revert(L, "Only relayer can call this function")
    ELSE IF ~(L.transactions[h].txHash # ZeroHash)
    THEN Revert(L, "Transaction does not exist")
    ELSE Done([L EXCEPT
            !.transactions[h].status = IF v THEN "Verified" ELSE "Rejected",
            !.transactions[h].reason = r,
            !.events = Append(@,
                [type |-> "TxVerified", txHash |-> h, verified |-> v,
                 reason |-> r, timestamp |-> t])])

\* (mutant) the status is not required to be Pending
holdTransaction_NoStateCheck(L, t, c, h, r) ==
    IF ~onlyRelayer(L, c)
    THEN Revert(L, "Only relayer can call this function")
    ELSE IF ~(L.transactions[h].txHash # ZeroHash)
    THEN Revert(L, "Transaction does not exist")
    ELSE Done([L EXCEPT
            !.transactions[h].status = "Held",
            !.transactions[h].reason = r,
            !.events = Append(@,
                [type |-> "TxHeld", txHash |-> h, reason |-> r,
                 timestamp |-> t])])

\* (mutant) a hold puts every record of the ledger on hold
holdTransaction_HoldsAll(L, t, c, h, r) ==
    IF ~onlyRelayer(L, c)
    THEN Revert(L, "Only relayer can call this function")
    ELSE IF ~(L.transactions[h].txHash # ZeroHash)
    THEN Revert(L, "Transaction does not exist")
    ELSE IF ~(L.transactions[h].status = "Pending")
    THEN Revert(L, "Transaction is not in pending state")
    ELSE Done([L EXCEPT
            !.transactions = [g \in Bytes32 |->
                [L.transactions[g] EXCEPT !.status = "Held", !.reason = r]],
            !.events = Append(@,
                [type |-> "TxHeld", txHash |-> h, reason |-> r,
                 timestamp |-> t])])

holdTransaction(L, t, c, h, r) ==
    IF ~onlyRelayer(L, c)
    THEN Revert(L, "Only relayer can call this function")
    ELSE IF ~(L.transactions[h].txHash # ZeroHash)
    THEN Revert(L, "Transaction does not exist")
    ELSE IF ~(L.transactions[h].status = "Pending")
    THEN Revert(L, "Transaction is not in pending state")
    ELSE Done([L EXCEPT
            !.transactions[h].status = "Held",
            !.transactions[h].reason = r,
            !.events = Append(@,
                [type |-> "TxHeld", txHash |-> h, reason |-> r,
                 timestamp |-> t])])

\* (mutant) the status is not required to be Held
releaseHeldTransaction_NoStateCheck(L, t, c, h, ap, r) ==
    IF ~onlyOwner(L, c)
    THEN Revert(L, "Only owner can call this function")
    ELSE IF ~(L.transactions[h].txHash # ZeroHash)
    THEN Revert(L, "Transaction does not exist")
    ELSE Done([L EXCEPT
            !.transactions[h].status = IF ap THEN "Verified" ELSE "Rejected",
            !.transactions[h].reason = r,
            !.events = Append(@,
                [type |-> "TxVerified", txHash |-> h, verified |-> ap,
                 reason |-> r, timestamp |-> t])])

\* (mutant) the event of a rejecting release says verified = true
releaseHeldTransaction_EventAlwaysVerified(L, t, c, h, ap, r) ==
    IF ~onlyOwner(L, c)
    THEN Revert(L, "Only owner can call this function")
    ELSE IF ~(L.transactions[h].txHash # ZeroHash)
    THEN Revert(L, "Transaction does not exist")
    ELSE IF ~(L.transactions[h].status = "Held")
    THEN Revert(L, "Transaction is not in held state")
    ELSE Done([L EXCEPT
            !.transactions[h].status = IF ap THEN "Verified" ELSE "Rejected",
            !.transactions[h].reason = r,
            !.events = Append(@,
                [type |-> "TxVerified", txHash |-> h, verified |-> TRUE,
                 reason |-> r, timestamp |-> t])])

\* (mutant) a release that does not approve sends the record back to Pending
releaseHeldTransaction_BackToPending(L, t, c, h, ap, r) ==
    IF ~onlyOwner(L, c)
    THEN Revert(L, "Only owner can call this function")
    ELSE IF ~(L.transactions[h].txHash # ZeroHash)
    THEN Revert(L, "Transaction does not exist")
    ELSE IF ~(L.transactions[h].status = "Held")
    THEN Revert(L, "Transaction is not in held state")
    ELSE Done([L EXCEPT
            !.transactions[h].status = IF ap THEN "Verified" ELSE "Pending",
            !.transactions[h].reason = r,
            !.events = Append(@,
                [type |-> "TxVerified", txHash |-> h, verified |-> ap,
                 reason |-> r, timestamp |-> t])])

releaseHeldTransaction(L, t, c, h, ap, r) ==
    IF ~onlyOwner(L, c)
    THEN Revert(L, "Only owner can call this function")
    ELSE IF ~(L.transactions[h].txHash # ZeroHash)
    THEN Revert(L, "Transaction does not exist")
    ELSE IF ~(L.transactions[h].status = "Held")
    THEN Revert(L, "Transaction is not in held state")
    ELSE Done([L EXCEPT
            !.transactions[h].status = IF ap THEN "Verified" ELSE "Rejected",
            !.transactions[h].reason = r,
            !.events = Append(@,
                [type |-> "TxVerified", txHash |-> h, verified |-> ap,
                 reason |-> r, timestamp |-> t])])

\* (mutant) a Held record can be completed as well
completeTransaction_AlsoFromHeld(L, t, c, h) ==
    IF ~onlyOwner(L, c)
    THEN Revert(L, "Only owner can call this function")
    ELSE IF ~(L.transactions[h].txHash # ZeroHash)
    THEN Revert(L, "Transaction does not exist")
    ELSE IF ~(L.transactions[h].status \in {"Verified", "Held"})
    THEN Revert(L, "Only verified transactions can be completed")
    ELSE Done([L EXCEPT
            !.transactions[h].status = "Completed",
            !.events = Append(@,
                [type |-> "TxCompleted", txHash |-> h, timestamp |-> t])])

completeTransaction(L, t, c, h) ==
    IF ~onlyOwner(L, c)
    THEN Revert(L, "Only owner can call this function")
    ELSE IF ~(L.transactions[h].txHash # ZeroHash)
    THEN Revert(L, "Transaction does not exist")
    ELSE IF ~(L.transactions[h].status = "Verified")
    THEN Revert(L, "Only verified transactions can be completed")
    ELSE Done([L EXCEPT
            !.transactions[h].status = "Completed",
            !.events = Append(@,
                [type |-> "TxCompleted", txHash |-> h, timestamp |-> t])])

\* ------------------------------------------------------------------- views
\* (mutant) every record that has left Pending reads as held
isHeld_AnyNonPending(L, c, h) ==
    Returned(L, L.transactions[h].status # "Pending", L.transactions[h].reason)

isHeld(L, c, h) ==
    Returned(L, L.transactions[h].status = "Held", L.transactions[h].reason)

\* (mutant) the branch for Completed is missing
getTransactionStatus_NoCompleted(L, c, h) ==
    IF L.transactions[h].txHash = ZeroHash THEN Returned(L, FALSE, "NOT_FOUND")
    ELSE IF L.transactions[h].status = "Pending" THEN Returned(L, FALSE, "PENDING")
    ELSE IF L.transactions[h].status = "Held" THEN Returned(L, FALSE, "HELD")
    ELSE IF L.transactions[h].status = "Verified" THEN Returned(L, FALSE, "VERIFIED")
    ELSE IF L.transactions[h].status = "Rejected" THEN Returned(L, FALSE, "REJECTED")
    ELSE Returned(L, FALSE, "UNKNOWN")

getTransactionStatus(L, c, h) ==
    IF L.transactions[h].txHash = ZeroHash THEN Returned(L, FALSE, "NOT_FOUND")
    ELSE IF L.transactions[h].status = "Pending" THEN Returned(L, FALSE, "PENDING")
    ELSE IF L.transactions[h].status = "Held" THEN Returned(L, FALSE, "HELD")
    ELSE IF L.transactions[h].status = "Verified" THEN Returned(L, FALSE, "VERIFIED")
    ELSE IF L.transactions[h].status = "Rejected" THEN Returned(L, FALSE, "REJECTED")
    ELSE IF L.transactions[h].status = "Completed" THEN Returned(L, FALSE, "COMPLETED")
    ELSE Returned(L, FALSE, "UNKNOWN")

\* ---------------------------------------------------------- access control
\* (mutant) removing the primary relayer leaves it in place
setRelayer_NoFallback(L, c, a, authorized) ==
    IF ~onlyOwner(L, c)
    THEN Revert(L, "Only owner can call this function")
    ELSE IF ~(a # ZeroAddress)
    THEN Revert(L, "Invalid relayer address")
    ELSE Done([L EXCEPT
            !.authorizedRelayers[a] = authorized,
            !.relayer = IF authorized THEN a ELSE L.relayer])

\* (mutant) granting to an address takes every other address off the roster
setRelayer_ReplacesRoster(L, c, a, authorized) ==
    IF ~onlyOwner(L, c)
    THEN Revert(L, "Only owner can call this function")
    ELSE IF ~(a # ZeroAddress)
    THEN Revert(L, "Invalid relayer address")
    ELSE Done([L EXCEPT
            !.authorizedRelayers = IF authorized
                                   THEN [b \in Address |-> b = a]
                                   ELSE [@ EXCEPT ![a] = FALSE],
            !.relayer = IF authorized THEN a
                        ELSE IF L.relayer = a THEN L.owner
                        ELSE L.relayer])

setRelayer(L, c, a, authorized) ==
    IF ~onlyOwner(L, c)
    THEN Revert(L, "Only owner can call this function")
    ELSE IF ~(a # ZeroAddress)
    THEN Revert(L, "Invalid relayer address")
    ELSE Done([L EXCEPT
            !.authorizedRelayers[a] = authorized,
            !.relayer = IF authorized THEN a
                        ELSE IF L.relayer = a THEN L.owner
                        ELSE L.relayer])

\* (mutant) ownership can be handed to the zero address
transferOwnership_NoZeroCheck(L, c, n) ==
    IF ~onlyOwner(L, c)
    THEN Revert(L, "Only owner can call this function")
    ELSE Done([L EXCEPT !.owner = n])

\* (mutant) a transfer is accepted and the owner stays
transferOwnership_NoChange(L, c, n) ==
    IF ~onlyOwner(L, c)
    THEN Revert(L, "Only owner can call this function")
    ELSE IF ~(n # ZeroAddress)
    THEN Revert(L, "Invalid new owner")
    ELSE Done(L)

\* (mutant) the new owner becomes the primary relayer and joins the roster
transferOwnership_TakesRelayer(L, c, n) ==
    IF ~onlyOwner(L, c)
    THEN Revert(L, "Only owner can call this function")
    ELSE IF ~(n # ZeroAddress)
    THEN Revert(L, "Invalid new owner")
    ELSE Done([L EXCEPT !.owner = n, !.relayer = n,
                        !.authorizedRelayers[n] = TRUE])

transferOwnership(L, c, n) ==
    IF ~onlyOwner(L, c)
    THEN Revert(L, "Only owner can call this function")
    ELSE IF ~(n # ZeroAddress)
    THEN Revert(L, "Invalid new owner")
    ELSE Done([L EXCEPT !.owner = n])

\* ---------------------------------------------------------------- actions
\* the outcome of a call becomes the ledger (a reverted call leaves it as it
\* was); the event log is kept within MaxEvents
Commit(o) ==
    /\ Len(o.ledger.events) <= MaxEvents
    /\ owner' = o.ledger.owner
    /\ relayer' = o.ledger.relayer
    /\ authorizedRelayers' = o.ledger.authorizedRelayers
    /\ transactions' = o.ledger.transactions
    /\ events' = o.ledger.events
    /\ UNCHANGED now

SubmitTxHash ==
    \E c \in Caller, h \in Bytes32, s \in Sender, a \in Amount :
        Commit(submitTxHash(Ledger, now, c, h, s, a))

SetVerification ==
    \E c \in Caller, h \in Bytes32, v \in BOOLEAN, r \in Reason :
        Commit(setVerification(Ledger, now, c, h, v, r))

HoldTransaction ==
    \E c \in Caller, h \in Bytes32, r \in Reason :
        Commit(holdTransaction(Ledger, now, c, h, r))

ReleaseHeldTransaction ==
    \E c \in Caller, h \in Bytes32, ap \in BOOLEAN, r \in Reason :
        Commit(releaseHeldTransaction(Ledger, now, c, h, ap, r))

CompleteTransaction ==
    \E c \in Caller, h \in Bytes32 :
        Commit(completeTransaction(Ledger, now, c, h))

IsHeld ==
    \E c \in Caller, h \in Bytes32 : Commit(isHeld(Ledger, c, h))

GetTransactionStatus ==
    \E c \in Caller, h \in Bytes32 : Commit(getTransactionStatus(Ledger, c, h))

SetRelayer ==
    \E c \in Caller, a \in Address, authorized \in BOOLEAN :
        Commit(setRelayer(Ledger, c, a, authorized))

TransferOwnership ==
    \E c \in Caller, n \in Address : Commit(transferOwnership(Ledger, c, n))

\* a later block: block.timestamp does not decrease
NextBlock ==
    /\ now < MaxTime
    /\ now' = now + 1
    /\ UNCHANGED <<owner, relayer, authorizedRelayers, transactions, events>>

Next ==
    \/ SubmitTxHash
    \/ SetVerification
    \/ HoldTransaction
    \/ ReleaseHeldTransaction
    \/ CompleteTransaction
    \/ IsHeld
    \/ GetTransactionStatus
    \/ SetRelayer
    \/ TransferOwnership
    \/ NextBlock

Spec == Init /\ [][Next]_vars

TypeOK ==
    /\ owner \in Address
    /\ relayer \in Address
    /\ authorizedRelayers \in [Address -> BOOLEAN]
    /\ \A h \in Bytes32 :
        /\ transactions[h].txHash \in Bytes32
        /\ transactions[h].status \in TxStatus
        /\ transactions[h].reason \in Reason \cup {""}
    /\ Len(events) <= MaxEvents
    /\ now \in 1..MaxTime

\* ================================================================ claims
\* The vocabulary of the claims, stated apart from the contract's code.

\* a record is visible for h (the test every function of the contract uses)
Exists(h) == transactions[h].txHash # ZeroHash

\* a TxSubmitted event for h is in the log: a submitTxHash(h, ...) succeeded
Submitted(h) ==
    \E i \in 1..Len(events) :
        events[i].type = "TxSubmitted" /\ events[i].txHash = h

\* the caller holds relayer rights: primary relayer or authorized relayer
IsAuthorizedRelayer(c) == c = relayer \/ authorizedRelayers[c]

\* the error kinds of the specification, as sets of revert messages
AuthorizationError ==
    {"Only owner can call this function", "Only relayer can call this function"}
NotFoundError == {"Transaction does not exist"}
DuplicateError == {"Transaction already exists"}
InvalidStateError ==
    {"Transaction is not in pending state", "Transaction is not in held state",
     "Only verified transactions can be completed"}
ValidationError ==
    {"Amount must be greater than 0", "Invalid relayer address", "Invalid new owner"}

\* the outcomes of every call caller c can make in the current state
SubmitOutcomes(c) ==
    {submitTxHash(Ledger, now, c, x[1], x[2], x[3]) :
        x \in Bytes32 \X Caller \X Amount}
VerifyOutcomes(c) ==
    {setVerification(Ledger, now, c, x[1], x[2], x[3]) :
        x \in Bytes32 \X BOOLEAN \X Reason}
HoldOutcomes(c) ==
    {holdTransaction(Ledger, now, c, x[1], x[2]) : x \in Bytes32 \X Reason}
ReleaseOutcomes(c) ==
    {releaseHeldTransaction(Ledger, now, c, x[1], x[2], x[3]) :
        x \in Bytes32 \X BOOLEAN \X Reason}
CompleteOutcomes(c) ==
    {completeTransaction(Ledger, now, c, h) : h \in Bytes32}
ViewOutcomes(c) ==
    {isHeld(Ledger, c, h) : h \in Bytes32}
        \cup {getTransactionStatus(Ledger, c, h) : h \in Bytes32}
AccessOutcomes(c) ==
    {setRelayer(Ledger, c, x[1], x[2]) : x \in Address \X BOOLEAN}
        \cup {transferOwnership(Ledger, c, n) : n \in Address}
\* every call but releaseHeldTransaction
OutcomesButRelease(c) ==
    SubmitOutcomes(c) \cup VerifyOutcomes(c) \cup HoldOutcomes(c)
        \cup CompleteOutcomes(c) \cup ViewOutcomes(c) \cup AccessOutcomes(c)
AllOutcomes(c) == OutcomesButRelease(c) \cup ReleaseOutcomes(c)

\* C1: once a record's status is Rejected or Completed, no step of any
\* caller changes that record's status again.
C1_TerminalStatusNeverChanges ==
    [][\A h \in Bytes32 :
        transactions[h].status \in {"Rejected", "Completed"} =>
            transactions'[h].status = transactions[h].status]_vars

\* C2: a Held record leaves Held only by a successful releaseHeldTransaction
\* of the current owner: every other call (any other function by any caller,
\* and releaseHeldTransaction by a caller that is not the owner) leaves the
\* record's status Held.
C2_HeldUntilOwnerRelease ==
    \A h \in Bytes32 :
        transactions[h].status = "Held" =>
            \A c \in Caller :
                /\ \A o \in OutcomesButRelease(c) :
                        o.ledger.transactions[h].status = "Held"
                /\ c # owner =>
                        \A o \in ReleaseOutcomes(c) :
                            o.ledger.transactions[h].status = "Held"

\* C3: once submitTxHash(h, ...) has succeeded, every later submitTxHash(h, ...)
\* by any caller, with any sender and amount, fails with DuplicateError and
\* leaves the ledger unchanged.
C3_Uniqueness ==
    \A h \in Bytes32 :
        Submitted(h) =>
            \A c \in Caller, s \in Caller, a \in Amount :
                LET o == submitTxHash(Ledger, now, c, h, s, a)
                IN  o.err \in DuplicateError /\ o.ledger = Ledger

\* C4: for every h submitted so far getTransactionStatus(h) returns one of
\* PENDING, HELD, VERIFIED, REJECTED, COMPLETED, never NOT_FOUND; and while the
\* submission of h is the latest event of the log it returns PENDING.
C4_SubmittedIsVisible ==
    \A c \in Caller, h \in Bytes32 :
        Submitted(h) =>
            /\ getTransactionStatus(Ledger, c, h).str \in
                    {"PENDING", "HELD", "VERIFIED", "REJECTED", "COMPLETED"}
            /\ (/\ events[Len(events)].type = "TxSubmitted"
                /\ events[Len(events)].txHash = h)
                    => getTransactionStatus(Ledger, c, h).str = "PENDING"

\* C5: called by an authorized relayer on an existing record, holdTransaction
\* succeeds exactly when the status is Pending; it then sets the status to Held
\* and the reason to the given reason; from any other status it fails with
\* InvalidStateError and leaves the ledger (status and reason included) as it was.
C5_HoldStateGuarded ==
    \A c \in Caller, h \in Bytes32, r \in Reason :
        (IsAuthorizedRelayer(c) /\ Exists(h)) =>
            LET o == holdTransaction(Ledger, now, c, h, r)
            IN  IF transactions[h].status = "Pending"
                THEN /\ o.err = ""
                     /\ o.ledger.transactions[h].status = "Held"
                     /\ o.ledger.transactions[h].reason = r
                ELSE /\ o.err \in InvalidStateError
                     /\ o.ledger = Ledger

\* a hold has put a record into Held with its reason, and a further hold of
\* that record by an authorized relayer is refused
C5_Witness ==
    \E c \in Caller, h \in Bytes32, r \in Reason :
        /\ IsAuthorizedRelayer(c) /\ Exists(h)
        /\ transactions[h].status = "Held"
        /\ transactions[h].reason \in Reason
        /\ holdTransaction(Ledger, now, c, h, r).err \in InvalidStateError

\* C6: called by the owner on an existing record, releaseHeldTransaction
\* succeeds exactly when the status is Held; it then sets the status to Verified
\* (approved) or Rejected (not approved) and sets the reason; from any other
\* status it fails with InvalidStateError and leaves the ledger as it was.
C6_ReleaseStateGuarded ==
    \A h \in Bytes32, ap \in BOOLEAN, r \in Reason :
        Exists(h) =>
            LET o == releaseHeldTransaction(Ledger, now, owner, h, ap, r)
            IN  IF transactions[h].status = "Held"
                THEN /\ o.err = ""
                     /\ o.ledger.transactions[h].status =
                            IF ap THEN "Verified" ELSE "Rejected"
                     /\ o.ledger.transactions[h].reason = r
                ELSE /\ o.err \in InvalidStateError
                     /\ o.ledger = Ledger

\* a Held record with a hold reason that the owner's release rejects, the
\* reason replaced
C6_Witness ==
    \E h \in Bytes32 :
        /\ Exists(h)
        /\ transactions[h].status = "Held"
        /\ transactions[h].reason = "manual review"
        /\ LET o == releaseHeldTransaction(Ledger, now, owner, h, FALSE, "cleared")
           IN  /\ o.err = ""
               /\ o.ledger.transactions[h].status = "Rejected"
               /\ o.ledger.transactions[h].reason = "cleared"

\* C7: called by the owner on an existing record, completeTransaction succeeds
\* exactly when the status is Verified; it then sets the status to Completed and
\* leaves reason, sender, amount and timestamp as they were; from any other
\* status it fails with InvalidStateError and leaves the ledger as it was.
\* Hence no call of any function by any caller makes a record Completed unless
\* its status was Verified just before.
C7_CompleteStateGuarded ==
    /\ \A h \in Bytes32 :
        Exists(h) =>
            LET o == completeTransaction(Ledger, now, owner, h)
            IN  IF transactions[h].status = "Verified"
                THEN /\ o.err = ""
                     /\ o.ledger.transactions[h] =
                            [transactions[h] EXCEPT !.status = "Completed"]
                ELSE /\ o.err \in InvalidStateError
                     /\ o.ledger = Ledger
    /\ \A c \in Caller, h \in Bytes32 :
        \A o \in AllOutcomes(c) :
            (/\ o.ledger.transactions[h].status = "Completed"
             /\ transactions[h].status # "Completed")
                => transactions[h].status = "Verified"

\* a record has been completed, it still carries the reason of its
\* verification, and completing it again is refused
C7_Witness ==
    \E h \in Bytes32 :
        /\ Exists(h)
        /\ transactions[h].status = "Completed"
        /\ transactions[h].reason \in Reason
        /\ completeTransaction(Ledger, now, owner, h).err \in InvalidStateError

\* C8: setVerification and holdTransaction called by a caller that is neither
\* the primary relayer nor an authorized relayer fail with AuthorizationError,
\* whether or not the record exists and whatever its status, and leave the
\* records, the authorization state and the event log as they were.
C8_RelayerGating ==
    \A c \in Caller :
        ~IsAuthorizedRelayer(c) =>
            \A o \in VerifyOutcomes(c) \cup HoldOutcomes(c) :
                o.err \in AuthorizationError /\ o.ledger = Ledger

\* a caller without relayer rights is refused on a Pending record that a
\* relayer could hold or verify
C8_Witness ==
    \E c \in Caller, h \in Bytes32, r \in Reason :
        /\ ~IsAuthorizedRelayer(c)
        /\ Exists(h) /\ transactions[h].status = "Pending"
        /\ holdTransaction(Ledger, now, c, h, r).err \in AuthorizationError
        /\ setVerification(Ledger, now, c, h, TRUE, r).err \in AuthorizationError
        /\ \E c2 \in Caller : holdTransaction(Ledger, now, c2, h, r).err = ""

\* C9: transferOwnership, setRelayer, releaseHeldTransaction and
\* completeTransaction called by any caller other than the current owner,
\* authorized relayers included, fail with AuthorizationError and leave owner,
\* relayer, authorizedRelayers, the records and the event log as they were.
C9_OwnerGating ==
    \A c \in Caller :
        c # owner =>
            \A o \in AccessOutcomes(c) \cup ReleaseOutcomes(c) \cup CompleteOutcomes(c) :
                o.err \in AuthorizationError /\ o.ledger = Ledger

\* an authorized relayer that is not the owner is refused the release of a
\* Held record that the owner could release
C9_Witness ==
    \E c \in Caller, h \in Bytes32, r \in Reason :
        /\ c # owner /\ IsAuthorizedRelayer(c)
        /\ Exists(h) /\ transactions[h].status = "Held"
        /\ releaseHeldTransaction(Ledger, now, c, h, TRUE, r).err \in AuthorizationError
        /\ releaseHeldTransaction(Ledger, now, owner, h, TRUE, r).err = ""

\* C10 as stated: submitTxHash(h, s, 0) fails with ValidationError ('Amount must
\* be greater than 0') for every h, s, caller and ledger state, a state with a
\* record for h included, and leaves the ledger as it was.
C10_ZeroAmountIsValidationError ==
    \A c \in Caller, h \in Bytes32, s \in Caller :
        LET o == submitTxHash(Ledger, now, c, h, s, 0)
        IN  o.err = "Amount must be greater than 0" /\ o.ledger = Ledger

\* C10 amended: submitTxHash(h, s, 0) always fails and leaves the ledger as it
\* was; it fails with ValidationError ('Amount must be greater than 0') when no
\* record is visible for h and with DuplicateError ('Transaction already
\* exists') when one is.
C10_ZeroAmountAlwaysFails ==
    \A c \in Caller, h \in Bytes32, s \in Caller :
        LET o == submitTxHash(Ledger, now, c, h, s, 0)
        IN  /\ o.err = IF Exists(h) THEN "Transaction already exists"
                       ELSE "Amount must be greater than 0"
            /\ o.ledger = Ledger

\* a record exists for h and a zero-amount submission of h is refused as a
\* duplicate, while one of another key is refused for its amount
C10_Witness ==
    \E c \in Caller, h \in Bytes32, h2 \in Bytes32, s \in Caller :
        /\ Exists(h) /\ ~Exists(h2)
        /\ submitTxHash(Ledger, now, c, h, s, 0).err \in DuplicateError
        /\ submitTxHash(Ledger, now, c, h2, s, 0).err \in ValidationError

\* C11: called by an authorized relayer on an existing record, whatever its
\* status, setVerification succeeds, sets the status to Verified (verified) or
\* Rejected (not verified) and sets the reason; called by an authorized relayer
\* it fails only when no record exists for h, and then with NotFoundError.
C11_SetVerificationAnyStatus ==
    \A c \in Caller, h \in Bytes32, v \in BOOLEAN, r \in Reason :
        IsAuthorizedRelayer(c) =>
            LET o == setVerification(Ledger, now, c, h, v, r)
            IN  IF Exists(h)
                THEN /\ o.err = ""
                     /\ o.ledger.transactions[h].status =
                            IF v THEN "Verified" ELSE "Rejected"
                     /\ o.ledger.transactions[h].reason = r
                ELSE /\ o.err \in NotFoundError
                     /\ o.ledger = Ledger

\* a Completed record that a relayer's setVerification moves to Rejected, next
\* to a key without a record, for which the call is refused
C11_Witness ==
    \E c \in Caller, h \in Bytes32, h2 \in Bytes32 :
        /\ IsAuthorizedRelayer(c)
        /\ Exists(h) /\ transactions[h].status = "Completed"
        /\ LET o == setVerification(Ledger, now, c, h, FALSE, "manual review")
           IN  o.err = "" /\ o.ledger.transactions[h].status = "Rejected"
        /\ ~Exists(h2)
        /\ setVerification(Ledger, now, c, h2, TRUE, "cleared").err \in NotFoundError

\* the call with the outcome call has succeeded, or failed with an error of one
\* of the five kinds and left the ledger as it was
FailsCleanly(call) ==
    \A o \in {call} :
        o.err # "" =>
            /\ o.err \in AuthorizationError \cup NotFoundError
                    \cup DuplicateError \cup InvalidStateError
                    \cup ValidationError
            /\ o.ledger = Ledger

\* C12: every call that fails, of any function by any caller, fails with one of
\* the five error kinds and leaves the whole ledger as it was before the call:
\* every record, owner, relayer, authorizedRelayers and the event log (no event
\* is emitted).
C12_AtomicRevert ==
    \A c \in Caller :
        /\ \A h \in Bytes32 :
            /\ \A s \in Caller, a \in Amount :
                FailsCleanly(submitTxHash(Ledger, now, c, h, s, a))
            /\ \A b \in BOOLEAN, r \in Reason :
                /\ FailsCleanly(setVerification(Ledger, now, c, h, b, r))
                /\ FailsCleanly(releaseHeldTransaction(Ledger, now, c, h, b, r))
            /\ \A r \in Reason :
                FailsCleanly(holdTransaction(Ledger, now, c, h, r))
            /\ FailsCleanly(completeTransaction(Ledger, now, c, h))
            /\ FailsCleanly(isHeld(Ledger, c, h))
            /\ FailsCleanly(getTransactionStatus(Ledger, c, h))
        /\ \A a \in Address :
            /\ \A b \in BOOLEAN : FailsCleanly(setRelayer(Ledger, c, a, b))
            /\ FailsCleanly(transferOwnership(Ledger, c, a))

\* a ledger with a record and an event in which calls fail with each of the
\* five error kinds
C12_Witness ==
    /\ Len(events) > 0
    /\ \E h \in Bytes32 : Exists(h)
    /\ \A kind \in {AuthorizationError, NotFoundError, DuplicateError,
                    InvalidStateError, ValidationError} :
        \E c \in Caller : \E o \in AllOutcomes(c) : o.err \in kind

\* the outcome o added exactly one event to the log, behind the events that
\* were there
AppendsOne(o) ==
    /\ Len(o.ledger.events) = Len(events) + 1
    /\ SubSeq(o.ledger.events, 1, Len(events)) = events
\* the event the outcome o added last
LastEvent(o) == o.ledger.events[Len(o.ledger.events)]

\* C13: each successful submitTxHash, holdTransaction, setVerification,
\* releaseHeldTransaction and completeTransaction appends exactly one event, for
\* its txHash, of the matching type and payload (TxSubmitted{h, sender, amount},
\* TxHeld{h, reason}, TxVerified{h, flag, reason} with the flag of the call,
\* TxCompleted{h}), stamped with the block timestamp; isHeld and
\* getTransactionStatus append nothing; no call alters or removes an event that
\* is in the log.
C13_AuditCompleteness ==
    \A c \in Caller, h \in Bytes32 :
        /\ \A s \in Caller, a \in Amount :
            \A o \in {submitTxHash(Ledger, now, c, h, s, a)} :
                IF o.err = ""
                THEN /\ AppendsOne(o)
                     /\ LastEvent(o) = [type |-> "TxSubmitted", txHash |-> h,
                                        sender |-> s, amount |-> a,
                                        timestamp |-> now]
                ELSE o.ledger.events = events
        /\ \A r \in Reason :
            \A o \in {holdTransaction(Ledger, now, c, h, r)} :
                IF o.err = ""
                THEN /\ AppendsOne(o)
                     /\ LastEvent(o) = [type |-> "TxHeld", txHash |-> h,
                                        reason |-> r, timestamp |-> now]
                ELSE o.ledger.events = events
        /\ \A flag \in BOOLEAN, r \in Reason :
            \A o \in {setVerification(Ledger, now, c, h, flag, r),
                      releaseHeldTransaction(Ledger, now, c, h, flag, r)} :
                IF o.err = ""
                THEN /\ AppendsOne(o)
                     /\ LastEvent(o) = [type |-> "TxVerified", txHash |-> h,
                                        verified |-> flag, reason |-> r,
                                        timestamp |-> now]
                ELSE o.ledger.events = events
        /\ \A o \in {completeTransaction(Ledger, now, c, h)} :
                IF o.err = ""
                THEN /\ AppendsOne(o)
                     /\ LastEvent(o) = [type |-> "TxCompleted", txHash |-> h,
                                        timestamp |-> now]
                ELSE o.ledger.events = events
        /\ isHeld(Ledger, c, h).ledger.events = events
        /\ getTransactionStatus(Ledger, c, h).ledger.events = events
        /\ \A o \in AccessOutcomes(c) : o.ledger.events = events

\* a log of a submission and a hold to which the owner's rejecting release adds
\* a TxVerified event with verified = false
C13_Witness ==
    \E h \in Bytes32 :
        /\ Len(events) = 2
        /\ events[1].type = "TxSubmitted" /\ events[1].txHash = h
        /\ events[2].type = "TxHeld" /\ events[2].txHash = h
        /\ LET o == releaseHeldTransaction(Ledger, now, owner, h, FALSE, "cleared")
           IN  /\ o.err = ""
               /\ Len(o.ledger.events) = 3
               /\ LastEvent(o).type = "TxVerified"
               /\ LastEvent(o).verified = FALSE

\* C14: when setRelayer(r, false) succeeds and r was the primary relayer, the
\* primary relayer is the owner afterwards; when r was not the primary relayer,
\* the primary relayer is unchanged; a successful setRelayer(r, true) followed
\* by setRelayer(r, false) leaves the primary relayer equal to the owner.
C14_RelayerFallback ==
    \A c \in Caller, r \in Address :
        /\ LET o == setRelayer(Ledger, c, r, FALSE)
           IN  o.err = "" =>
                   /\ o.ledger.owner = owner
                   /\ o.ledger.relayer = IF relayer = r THEN owner ELSE relayer
        /\ LET g == setRelayer(Ledger, c, r, TRUE)
               o == setRelayer(g.ledger, c, r, FALSE)
           IN  g.err = "" =>
                   /\ o.err = ""
                   /\ o.ledger.relayer = o.ledger.owner
                   /\ o.ledger.owner = owner

\* the primary relayer is not the owner, and the owner removes it (fallback) or
\* removes another address (no change)
C14_Witness ==
    /\ relayer # owner
    /\ setRelayer(Ledger, owner, relayer, FALSE).err = ""
    /\ setRelayer(Ledger, owner, relayer, FALSE).ledger.relayer = owner
    /\ \E r \in Caller :
        /\ r # relayer
        /\ setRelayer(Ledger, owner, r, FALSE).err = ""
        /\ setRelayer(Ledger, owner, r, FALSE).ledger.relayer = relayer

\* C15: owner and primary relayer are never the zero address, so some identity
\* always holds relayer rights; the owner's transferOwnership(0) and
\* setRelayer(0, any) fail with ValidationError, and from no caller do these
\* calls succeed or change anything.
C15_NeverZeroAddress ==
    /\ owner # ZeroAddress
    /\ relayer # ZeroAddress
    /\ \E a \in Caller : IsAuthorizedRelayer(a)
    /\ \A c \in Caller :
        \A o \in {transferOwnership(Ledger, c, ZeroAddress)}
                 \cup {setRelayer(Ledger, c, ZeroAddress, b) : b \in BOOLEAN} :
            /\ o.err # ""
            /\ o.ledger = Ledger
            /\ c = owner => o.err \in ValidationError

\* ownership and the primary relayer have both moved away from the deployer, and
\* the present owner's calls with the zero address are refused
C15_Witness ==
    /\ owner # Deployer
    /\ relayer # Deployer
    /\ transferOwnership(Ledger, owner, ZeroAddress).err \in ValidationError
    /\ setRelayer(Ledger, owner, ZeroAddress, TRUE).err \in ValidationError
    /\ setRelayer(Ledger, owner, ZeroAddress, FALSE).err \in ValidationError

\* every owner-only call (transferOwnership, setRelayer,
\* releaseHeldTransaction, completeTransaction) by caller c on the ledger L is
\* refused by the owner check and changes nothing
OwnerOnlyRefused(L, t, c) ==
    \A a \in Address, b \in BOOLEAN, h \in Bytes32, r \in Reason :
        \A o \in {transferOwnership(L, c, a), setRelayer(L, c, a, b),
                  releaseHeldTransaction(L, t, c, h, b, r),
                  completeTransaction(L, t, c, h)} :
            o.err \in AuthorizationError /\ o.ledger = L

\* every owner-only call by caller c on the ledger L passes the owner check
OwnerOnlyAdmitted(L, t, c) ==
    \A a \in Address, b \in BOOLEAN, h \in Bytes32, r \in Reason :
        /\ transferOwnership(L, c, a).err \notin AuthorizationError
        /\ setRelayer(L, c, a, b).err \notin AuthorizationError
        /\ releaseHeldTransaction(L, t, c, h, b, r).err \notin AuthorizationError
        /\ completeTransaction(L, t, c, h).err \notin AuthorizationError

\* C16: when transferOwnership(n) succeeds with n different from the old owner,
\* the owner is n at once; on the resulting ledger every owner-only call by the
\* previous owner fails with AuthorizationError and none by n does; and in every
\* state (so until the next transfer) exactly the present owner passes the
\* owner check.
C16_OwnershipHandoff ==
    /\ \A c \in Caller, n \in Caller :
        \A o \in {transferOwnership(Ledger, c, n)} :
            (o.err = "" /\ n # owner) =>
                /\ c = owner
                /\ o.ledger.owner = n
                /\ o.ledger = [Ledger EXCEPT !.owner = n]
                /\ OwnerOnlyRefused(o.ledger, now, c)
                /\ OwnerOnlyAdmitted(o.ledger, now, n)
    /\ \A c \in Caller :
        IF c = owner
        THEN OwnerOnlyAdmitted(Ledger, now, c)
        ELSE OwnerOnlyRefused(Ledger, now, c)

\* ownership has been handed over: the deployer, refused now, can take it over
\* again only by a transfer from the present owner, and a held record waits
\* that the present owner alone can release
C16_Witness ==
    /\ owner # Deployer
    /\ transferOwnership(Ledger, Deployer, Deployer).err \in AuthorizationError
    /\ transferOwnership(Ledger, owner, Deployer).err = ""
    /\ transferOwnership(Ledger, owner, Deployer).ledger.owner = Deployer
    /\ \E h \in Bytes32 :
        /\ transactions[h].status = "Held"
        /\ releaseHeldTransaction(Ledger, now, owner, h, TRUE, "cleared").err = ""
        /\ releaseHeldTransaction(Ledger, now, Deployer, h, TRUE, "cleared").err
                \in AuthorizationError

\* C17: in the state the constructor leaves, owner and primary relayer are both
\* the deployer, the deployer is the only address with relayer rights (the only
\* member of authorizedRelayers, and the only caller the relayer check
\* admits), no transaction record exists and the event log is empty.
C17_InitialState ==
    Init =>
        /\ owner = Deployer
        /\ relayer = Deployer
        /\ \A a \in Address : authorizedRelayers[a] <=> (a = Deployer)
        /\ \A c \in Caller : IsAuthorizedRelayer(c) <=> (c = Deployer)
        /\ \A h \in Bytes32 :
            /\ ~Exists(h)
            /\ transactions[h] = EmptyTransaction
            /\ \A c \in Caller :
                getTransactionStatus(Ledger, c, h).str = "NOT_FOUND"
        /\ events = <<>>

\* the state after construction: the deployer passes the owner and the relayer
\* check, the other caller passes neither
C17_Witness ==
    /\ Init
    /\ onlyOwner(Ledger, Deployer) /\ onlyRelayer(Ledger, Deployer)
    /\ \E c \in Caller :
        /\ c # Deployer
        /\ ~onlyOwner(Ledger, c) /\ ~onlyRelayer(Ledger, c)
        /\ holdTransaction(Ledger, now, c, 1, "manual review").err
                \in AuthorizationError

StatusName(s) ==
    CASE s = "Pending"   -> "PENDING"
      [] s = "Held"      -> "HELD"
      [] s = "Verified"  -> "VERIFIED"
      [] s = "Rejected"  -> "REJECTED"
      [] s = "Completed" -> "COMPLETED"

\* C19: for every caller and every txHash, getTransactionStatus never fails and
\* returns one of NOT_FOUND, PENDING, HELD, VERIFIED, REJECTED, COMPLETED (the
\* name of the record's status, and NOT_FOUND when no record exists, never
\* UNKNOWN); isHeld never fails; neither changes a record, the authorization
\* state or the event log.
C19_ReadsTotalAndPure ==
    \A c \in Caller, h \in Bytes32 :
        /\ LET o == getTransactionStatus(Ledger, c, h)
           IN  /\ o.err = ""
               /\ o.str \in {"NOT_FOUND", "PENDING", "HELD", "VERIFIED",
                             "REJECTED", "COMPLETED"}
               /\ ~Exists(h) => o.str = "NOT_FOUND"
               /\ ~Submitted(h) => o.str = "NOT_FOUND"
               /\ Exists(h) => o.str = StatusName(transactions[h].status)
               /\ o.ledger = Ledger
        /\ LET o == isHeld(Ledger, c, h)
           IN  /\ o.err = ""
               /\ o.ledger = Ledger

\* a completed record and a key with no record are both read, by a caller with
\* no role
C19_Witness ==
    \E c \in Caller, h \in Bytes32, g \in Bytes32 :
        /\ c # owner /\ ~IsAuthorizedRelayer(c)
        /\ Len(events) > 0
        /\ transactions[h].status = "Completed"
        /\ getTransactionStatus(Ledger, c, h).str = "COMPLETED"
        /\ ~Exists(g) /\ ~Submitted(g)
        /\ getTransactionStatus(Ledger, c, g).str = "NOT_FOUND"
        /\ isHeld(Ledger, c, g).err = ""

\* the reasons given to the holdTransaction calls that succeeded for h, as the
\* event log has them
HoldReasons(h) ==
    {events[i].reason : i \in {j \in 1..Len(events) :
        events[j].type = "TxHeld" /\ events[j].txHash = h}}

\* C20: isHeld(h) returns held = true exactly when a record for h exists with
\* status Held; the reason it then returns is the reason argument of the
\* holdTransaction call that put the record into Held (the one hold the log has
\* for h, and the reason just given when read right after the hold); for a
\* txHash with no record it returns (false, "").
C20_IsHeld ==
    \A c \in Caller, h \in Bytes32 :
        /\ \A o \in {isHeld(Ledger, c, h)} :
            /\ o.flag <=> (Exists(h) /\ transactions[h].status = "Held")
            /\ o.flag => HoldReasons(h) = {o.str}
            /\ ~Exists(h) => (~o.flag /\ o.str = "")
            /\ ~Submitted(h) => (~o.flag /\ o.str = "")
        /\ \A k \in Caller, r \in Reason :
            \A p \in {holdTransaction(Ledger, now, k, h, r)} :
                p.err = "" =>
                    \A q \in {isHeld(p.ledger, c, h)} : q.flag /\ q.str = r

\* a record is held for a reason and isHeld says so, and a key has no record
C20_Witness ==
    \E c \in Caller, h \in Bytes32, g \in Bytes32 :
        /\ transactions[h].status = "Held"
        /\ transactions[h].reason = "manual review"
        /\ HoldReasons(h) = {"manual review"}
        /\ isHeld(Ledger, c, h).flag
        /\ isHeld(Ledger, c, h).str = "manual review"
        /\ ~Exists(g)
        /\ ~isHeld(Ledger, c, g).flag /\ isHeld(Ledger, c, g).str = ""

\* the event of the first successful submitTxHash(h, ...)
FirstSubmission(h) ==
    events[CHOOSE i \in 1..Len(events) :
        /\ events[i].type = "TxSubmitted" /\ events[i].txHash = h
        /\ \A j \in 1..(i - 1) :
            ~(events[j].type = "TxSubmitted" /\ events[j].txHash = h)]

\* the call with the outcome call leaves txHash, sender, amount and timestamp of
\* the record of h as they are
KeepsCreationFields(h, call) ==
    \A o \in {call} :
        /\ o.ledger.transactions[h].txHash = transactions[h].txHash
        /\ o.ledger.transactions[h].sender = transactions[h].sender
        /\ o.ledger.transactions[h].amount = transactions[h].amount
        /\ o.ledger.transactions[h].timestamp = transactions[h].timestamp

\* C21: for every h that has been submitted, the record's txHash, sender, amount
\* and timestamp are the values of the first successful submitTxHash(h, ...),
\* and no call of any function by any caller (further submissions of h
\* included) changes them.
C21_CreationFieldsImmutable ==
    \A h \in Bytes32 :
        Submitted(h) =>
            /\ transactions[h].txHash = h
            /\ transactions[h].sender = FirstSubmission(h).sender
            /\ transactions[h].amount = FirstSubmission(h).amount
            /\ transactions[h].timestamp = FirstSubmission(h).timestamp
            /\ \A c \in Caller, g \in Bytes32 :
                /\ \A s \in Caller, a \in Amount :
                    KeepsCreationFields(h, submitTxHash(Ledger, now, c, g, s, a))
                /\ \A b \in BOOLEAN, r \in Reason :
                    /\ KeepsCreationFields(h,
                            setVerification(Ledger, now, c, g, b, r))
                    /\ KeepsCreationFields(h,
                            releaseHeldTransaction(Ledger, now, c, g, b, r))
                    /\ KeepsCreationFields(h,
                            holdTransaction(Ledger, now, c, g, r))
                /\ KeepsCreationFields(h, completeTransaction(Ledger, now, c, g))
                /\ \A a \in Address, b \in BOOLEAN :
                    /\ KeepsCreationFields(h, setRelayer(Ledger, c, a, b))
                    /\ KeepsCreationFields(h, transferOwnership(Ledger, c, a))

\* the registry call on h with the outcome call leaves owner, primary relayer
\* and authorizedRelayers, and the record of every other key, as they are
KeepsAuthorizationAndOthers(h, call) ==
    \A o \in {call} :
        /\ o.ledger.owner = owner
        /\ o.ledger.relayer = relayer
        /\ o.ledger.authorizedRelayers = authorizedRelayers
        /\ \A g \in Bytes32 \ {h} :
            o.ledger.transactions[g] = transactions[g]

\* the access-control call with the outcome call leaves every record and the
\* event log as they are, and changes the authorization state only when it
\* succeeds
KeepsRegistry(call) ==
    \A o \in {call} :
        /\ o.ledger.transactions = transactions
        /\ o.ledger.events = events
        /\ o.err # "" =>
            /\ o.ledger.owner = owner
            /\ o.ledger.relayer = relayer
            /\ o.ledger.authorizedRelayers = authorizedRelayers

\* C22: submitTxHash, setVerification, holdTransaction, releaseHeldTransaction
\* and completeTransaction (and the two reads) leave owner, primary relayer and
\* authorizedRelayers unchanged, and a call on h leaves the record of every other
\* key unchanged; transferOwnership and setRelayer leave every record and the
\* event log unchanged, and they change the authorization state only when they
\* succeed.
C22_FrameOfPartitions ==
    \A c \in Caller :
        /\ \A h \in Bytes32 :
            /\ \A s \in Caller, a \in Amount :
                KeepsAuthorizationAndOthers(h,
                    submitTxHash(Ledger, now, c, h, s, a))
            /\ \A b \in BOOLEAN, r \in Reason :
                /\ KeepsAuthorizationAndOthers(h,
                        setVerification(Ledger, now, c, h, b, r))
                /\ KeepsAuthorizationAndOthers(h,
                        releaseHeldTransaction(Ledger, now, c, h, b, r))
            /\ \A r \in Reason :
                KeepsAuthorizationAndOthers(h,
                    holdTransaction(Ledger, now, c, h, r))
            /\ KeepsAuthorizationAndOthers(h,
                    completeTransaction(Ledger, now, c, h))
            /\ KeepsAuthorizationAndOthers(h, isHeld(Ledger, c, h))
            /\ KeepsAuthorizationAndOthers(h, getTransactionStatus(Ledger, c, h))
        /\ \A a \in Address :
            /\ \A b \in BOOLEAN : KeepsRegistry(setRelayer(Ledger, c, a, b))
            /\ KeepsRegistry(transferOwnership(Ledger, c, a))

\* both keys have been submitted, the primary relayer is no longer the owner; a
\* hold of one record by the relayer succeeds and leaves the other record, and
\* a transfer of ownership succeeds and leaves both
C22_Witness ==
    \E h \in Bytes32, g \in Bytes32 :
        /\ h # g
        /\ Submitted(h) /\ Submitted(g)
        /\ relayer # owner
        /\ LET o == holdTransaction(Ledger, now, relayer, h, "manual review")
           IN  /\ o.err = ""
               /\ o.ledger.transactions[h] # transactions[h]
               /\ o.ledger.transactions[g] = transactions[g]
               /\ o.ledger.relayer = relayer
        /\ LET o == transferOwnership(Ledger, owner, relayer)
           IN  /\ o.err = ""
               /\ o.ledger.owner # owner
               /\ o.ledger.transactions = transactions

\* the key h has an event in the log
HasEvent(h) == \E i \in 1..Len(events) : events[i].txHash = h

\* the last event emitted for h
LastEventOf(h) ==
    events[CHOOSE i \in 1..Len(events) :
        /\ events[i].txHash = h
        /\ \A j \in (i + 1)..Len(events) : events[j].txHash # h]

\* the status string an event stands for
ImpliedStatus(e) ==
    CASE e.type = "TxSubmitted" -> "PENDING"
      [] e.type = "TxHeld"      -> "HELD"
      [] e.type = "TxVerified"  -> IF e.verified THEN "VERIFIED" ELSE "REJECTED"
      [] e.type = "TxCompleted" -> "COMPLETED"

\* C23: for every txHash that has an event in the log, getTransactionStatus
\* returns the status implied by the last event emitted for that txHash; for a
\* txHash with no event it returns NOT_FOUND.
C23_LogDeterminesStatus ==
    \A c \in Caller, h \in Bytes32 :
        getTransactionStatus(Ledger, c, h).str =
            IF HasEvent(h) THEN ImpliedStatus(LastEventOf(h)) ELSE "NOT_FOUND"

\* the events of the given type the log has for h
EventsOf(h, type) ==
    {i \in 1..Len(events) : events[i].txHash = h /\ events[i].type = type}

\* the call with the outcome call brings the record of h neither into Pending
\* nor, from anything but Pending, into Held
EntersNeitherPendingNorHeld(h, call) ==
    \A o \in {call} :
        /\ o.ledger.transactions[h].status = "Pending"
                => transactions[h].status = "Pending"
        /\ (/\ o.ledger.transactions[h].status = "Held"
            /\ transactions[h].status # "Held")
                => transactions[h].status = "Pending"

\* C24: a record that has left Pending (the log has a later event for it than
\* its submission) is not Pending, and no call by any caller makes it Pending
\* again; a record is made Held only from Pending, so a record that has left
\* Held is never Held again; the log has at most one TxHeld event per txHash.
C24_NoReEntry ==
    \A h \in Bytes32 :
        /\ Cardinality(EventsOf(h, "TxHeld")) <= 1
        /\ (\E ty \in {"TxHeld", "TxVerified", "TxCompleted"} :
                EventsOf(h, ty) # {})
                => transactions[h].status # "Pending"
        /\ (transactions[h].status = "Held") <=>
                (/\ EventsOf(h, "TxHeld") # {}
                 /\ EventsOf(h, "TxVerified") = {})
        /\ \A c \in Caller, g \in Bytes32 :
            /\ \A s \in Caller, a \in Amount :
                EntersNeitherPendingNorHeld(h,
                    submitTxHash(Ledger, now, c, g, s, a))
            /\ \A b \in BOOLEAN, r \in Reason :
                /\ EntersNeitherPendingNorHeld(h,
                        setVerification(Ledger, now, c, g, b, r))
                /\ EntersNeitherPendingNorHeld(h,
                        releaseHeldTransaction(Ledger, now, c, g, b, r))
                /\ EntersNeitherPendingNorHeld(h,
                        holdTransaction(Ledger, now, c, g, r))
            /\ EntersNeitherPendingNorHeld(h,
                    completeTransaction(Ledger, now, c, g))
            /\ \A a \in Address, b \in BOOLEAN :
                /\ EntersNeitherPendingNorHeld(h, setRelayer(Ledger, c, a, b))
                /\ EntersNeitherPendingNorHeld(h,
                        transferOwnership(Ledger, c, a))

\* a record was held and then rejected; a further hold by the relayer is
\* refused, and the setVerification that rewrites the terminal record makes it
\* Verified, not Pending or Held
C24_Witness ==
    \E h \in Bytes32 :
        /\ Cardinality(EventsOf(h, "TxHeld")) = 1
        /\ Cardinality(EventsOf(h, "TxVerified")) = 1
        /\ transactions[h].status = "Rejected"
        /\ \A r \in Reason :
            /\ holdTransaction(Ledger, now, relayer, h, r).err
                    \in InvalidStateError
            /\ LET o == setVerification(Ledger, now, relayer, h, TRUE, r)
               IN  /\ o.err = ""
                   /\ o.ledger.transactions[h].status = "Verified"

\* on the ledger L the relayer-only calls (setVerification, holdTransaction) of
\* caller c pass the relayer check
RelayerCallsAdmitted(L, t, c) ==
    \A h \in Bytes32, b \in BOOLEAN, r \in Reason :
        /\ setVerification(L, t, c, h, b, r).err \notin AuthorizationError
        /\ holdTransaction(L, t, c, h, r).err \notin AuthorizationError

\* on the ledger L the relayer-only calls of caller c are refused
RelayerCallsRefused(L, t, c) ==
    \A h \in Bytes32, b \in BOOLEAN, r \in Reason :
        /\ setVerification(L, t, c, h, b, r).err \in AuthorizationError
        /\ holdTransaction(L, t, c, h, r).err \in AuthorizationError

\* C25: when transferOwnership(n) succeeds, primary relayer and
\* authorizedRelayers are as before: every caller (the previous owner and the
\* new owner n included) has relayer rights afterwards exactly if it had them
\* before, and its setVerification and holdTransaction calls pass or fail the
\* relayer check accordingly.
C25_TransferKeepsRoster ==
    \A c \in Caller, n \in Address :
        \A o \in {transferOwnership(Ledger, c, n)} :
            o.err = "" =>
                /\ o.ledger.owner = n
                /\ o.ledger.relayer = relayer
                /\ o.ledger.authorizedRelayers = authorizedRelayers
                /\ \A x \in Caller :
                    IF IsAuthorizedRelayer(x)
                    THEN /\ onlyRelayer(o.ledger, x)
                         /\ RelayerCallsAdmitted(o.ledger, now, x)
                    ELSE /\ ~onlyRelayer(o.ledger, x)
                         /\ RelayerCallsRefused(o.ledger, now, x)

\* ownership has gone to an account without relayer rights: the owner is not an
\* authorized relayer and its hold is refused, while the previous owner, still
\* the primary relayer, holds a pending record
C25_Witness ==
    \E h \in Bytes32 :
        /\ owner # Deployer
        /\ relayer = Deployer
        /\ ~IsAuthorizedRelayer(owner)
        /\ transactions[h].status = "Pending" /\ Exists(h)
        /\ holdTransaction(Ledger, now, owner, h, "manual review").err
                \in AuthorizationError
        /\ holdTransaction(Ledger, now, Deployer, h, "manual review").err = ""
====
